---------------------------- MODULE Spec2Model ----------------------------
(***************************************************************************)
(* The /score request pipeline of backend/main.py: locale filter, base     *)
(* score aggregation, stable three-key ranking, top-5 shortlist, the call  *)
(* to the external refiner and the handling of what comes back.            *)
(*                                                                         *)
(* Number representation.  The code computes in binary floating point.     *)
(*   - normalized attribute scores are held in thousandths of a point,     *)
(*   - weights in tenths,                                                  *)
(*   - base scores and emitted scores (both round(x, 1) in the code) in    *)
(*     tenths of a point,                                                  *)
(*   - scores suggested by the refiner in hundredths of a point,           *)
(*   - ratings in tenths of a star.                                        *)
(***************************************************************************)
EXTENDS Integers, Sequences, FiniteSets, TLC

VARIABLES pool, pc, request, top_candidates, gpt_response, response

vars == <<pool, pc, request, top_candidates, gpt_response, response>>

---------------------------------------------------------------------------
(* Bounds of the model.                                                    *)

\* Longest "top_contractors" list the refiner returns.
MaxEntries == 4

\* Largest candidate pool of the ranking specification.
MaxPool == 6

---------------------------------------------------------------------------
(* The candidate dataset.                                                  *)

CONTRACTORS ==
    << [id |-> "c1", name |-> "NorthPeak Roofing", vertical |-> "roofing",
        years_in_business |-> 18, rating |-> 47, review_count |-> 312,
        service_area |-> "Salt Lake City", pricing_band |-> "$$$",
        speed_weeks |-> 2, licenses |-> <<"UT-ROOF-44121">>, flags |-> <<>>],
       [id |-> "c2", name |-> "Beehive Home Repair", vertical |-> "handyman",
        years_in_business |-> 6, rating |-> 44, review_count |-> 128,
        service_area |-> "Salt Lake City", pricing_band |-> "$$",
        speed_weeks |-> 3, licenses |-> <<"UT-GEN-99812">>,
        flags |-> <<"limited_roofing_experience">>],
       [id |-> "c3", name |-> "Wasatch Elite Exteriors", vertical |-> "siding",
        years_in_business |-> 12, rating |-> 48, review_count |-> 205,
        service_area |-> "Salt Lake City", pricing_band |-> "$$$",
        speed_weeks |-> 4, licenses |-> <<"UT-EXT-77421">>,
        flags |-> <<"premium_pricing">>],
       [id |-> "c4", name |-> "Granite Peak Roofing Co.", vertical |-> "roofing",
        years_in_business |-> 9, rating |-> 45, review_count |-> 164,
        service_area |-> "Salt Lake City", pricing_band |-> "$$",
        speed_weeks |-> 3, licenses |-> <<"UT-ROOF-55210">>, flags |-> <<>>],
       [id |-> "c5", name |-> "QuickFix Pros", vertical |-> "roofing",
        years_in_business |-> 3, rating |-> 42, review_count |-> 59,
        service_area |-> "Salt Lake City", pricing_band |-> "$",
        speed_weeks |-> 2, licenses |-> <<"UT-ROOF-12003">>,
        flags |-> <<"newer_company">>] >>

---------------------------------------------------------------------------
(* Arithmetic helpers.                                                     *)

Min(a, b) == IF a <= b THEN a ELSE b

Max(a, b) == IF a >= b THEN a ELSE b

\* str.lower() on the strings the model uses.
Lower(s) ==
    CASE s = "Salt Lake City" -> "salt lake city"
      [] s = "SALT LAKE CITY" -> "salt lake city"
      [] s = "Provo"          -> "provo"
      [] s = "Roofing"        -> "roofing"
      [] s = "Siding"         -> "siding"
      [] s = "Handyman"       -> "handyman"
      [] OTHER                -> s

\* 2^j modulo 100.
RECURSIVE Pow2Mod100(_)
Pow2Mod100(j) == IF j = 0 THEN 1 ELSE (2 * Pow2Mod100(j - 1)) % 100

\* The binary exponent e of h/100, h > 0: 2^e <= h/100 < 2^(e+1),
\* returned as 52 - e, the number of fraction bits the double keeps.
RECURSIVE FracBitsUp(_, _)
FracBitsUp(h, j) == IF h >= 100 THEN j ELSE FracBitsUp(2 * h, j + 1)

RECURSIVE FracBitsDown(_, _)
FracBitsDown(h, j) == IF h < 200 THEN j ELSE FracBitsDown(h \div 2, j - 1)

FracBits(h) ==
    IF h = 0 THEN 52
    ELSE IF h < 100 THEN FracBitsUp(h, 52) ELSE FracBitsDown(h, 52)

\* round(x, 1) of the double nearest to h/100, h >= 0, in tenths.  Python
\* rounds the exact binary value of the double: a decimal x.x5 goes the way
\* its double lies from it, and to the even tenth when the double is exact.
RoundPos(h) ==
    LET q == h \div 10
        r == h % 10
        rho == ((h % 100) * Pow2Mod100(FracBits(h))) % 100
    IN  IF r < 5 THEN q
        ELSE IF r > 5 THEN q + 1
        ELSE IF rho = 0 THEN (IF q % 2 = 0 THEN q ELSE q + 1)
        ELSE IF rho < 50 THEN q
        ELSE q + 1

\* round(x, 1) for x = h/100 of either sign.
Round1(h) == IF h >= 0 THEN RoundPos(h) ELSE 0 - RoundPos(0 - h)

\* n/d (n >= 0, d > 0) rounded to the nearest integer, a half to the even one.
RoundDiv(n, d) ==
    LET q == n \div d
        r == n % d
    IN  IF 2 * r < d THEN q
        ELSE IF 2 * r > d THEN q + 1
        ELSE IF q % 2 = 0 THEN q ELSE q + 1

RECURSIVE Pow10(_)
Pow10(k) == IF k = 0 THEN 1 ELSE 10 * Pow10(k - 1)

---------------------------------------------------------------------------
(* Normalizers: each returns thousandths of a point.                       *)

normalize_experience(years) == Min(years * 5000, 100000)

\* math.log(n) / math.log(500) * 100 in thousandths, for the review counts
\* of the dataset.
LogRatio(n) ==
    CASE n = 312 -> 92411
      [] n = 128 -> 78075
      [] n = 205 -> 85653
      [] n = 164 -> 82063
      [] n = 59  -> 65612

normalize_reviews(review_count) ==
    IF review_count <= 1 THEN 0 ELSE Min(LogRatio(review_count), 100000)

normalize_rating(rating) == (rating - 10) * 2500

price_mapping(band) ==
    CASE band = "$"   -> 100
      [] band = "$$"  -> 70
      [] band = "$$$" -> 40
      [] band = ""    -> 50
      [] OTHER        -> 50

inverted_mapping(band) ==
    CASE band = "$"   -> 60
      [] band = "$$"  -> 80
      [] band = "$$$" -> 100
      [] band = ""    -> 50
      [] OTHER        -> 50

\* Mutation: the inverted table is never used.
normalize_price_never_inverted(pricing_band, price_weight) ==
    price_mapping(pricing_band) * 1000

\* price_weight in tenths: "< 0.2" is "< 2".
normalize_price(pricing_band, price_weight) ==
    IF price_weight < 2
    THEN inverted_mapping(pricing_band) * 1000
    ELSE price_mapping(pricing_band) * 1000

normalize_speed(speed_weeks) == Max(0, 6 - speed_weeks) * 20000

---------------------------------------------------------------------------
(* Score Aggregator.                                                       *)

\* The mapping of a request's weights is a set of <<key, tenths>> pairs.
HasKey(d, key) == \E p \in d : p[1] = key

Get(d, key, default) ==
    IF HasKey(d, key) THEN (CHOOSE p \in d : p[1] = key)[2] ELSE default

\* Sum of normalized score times weight: ten-thousandths of a point.
weighted_sum(contractor, req) ==
      normalize_experience(contractor.years_in_business)
          * Get(req.weights, "experience", 0)
    + normalize_reviews(contractor.review_count)
          * Get(req.weights, "reviews", 0)
    + normalize_rating(contractor.rating)
          * Get(req.weights, "rating", 0)
    + normalize_price(contractor.pricing_band, Get(req.weights, "price", 1))
          * Get(req.weights, "price", 0)
    + normalize_speed(contractor.speed_weeks)
          * Get(req.weights, "speed", 0)

\* Project type bonus or penalty, in tenths: 1.2, 0.8 or 1.
project_type_factor(contractor, req) ==
    IF Lower(contractor.vertical) = Lower(req.project_type) THEN 12
    ELSE IF /\ contractor.vertical = "handyman"
            /\ Lower(req.project_type) \in {"roofing", "siding"} THEN 8
    ELSE 10

negative_flags ==
    {"limited_roofing_experience", "newer_company", "premium_pricing"}

RECURSIVE NegativeFlagCount(_)
NegativeFlagCount(flags) ==
    IF flags = <<>> THEN 0
    ELSE (IF Head(flags) \in negative_flags THEN 1 ELSE 0)
         + NegativeFlagCount(Tail(flags))

RECURSIVE Pow9(_)
Pow9(k) == IF k = 0 THEN 1 ELSE 9 * Pow9(k - 1)

\* The base score as the exact fraction num/den of a point: the weighted
\* sum, times the project type factor, times 0.9 per negative flag, capped
\* at 100.
calculate_base_score(contractor, req) ==
    LET k   == NegativeFlagCount(contractor.flags)
        den == 100000 * Pow10(k)
        num == weighted_sum(contractor, req)
                 * project_type_factor(contractor, req) * Pow9(k)
    IN  [num |-> Min(num, 100 * den), den |-> den]

\* round(base_score, 1), in tenths of a point.
RoundBase(b) == RoundDiv(b.num, b.den \div 10)

---------------------------------------------------------------------------
(* Candidate Ranker.                                                       *)

\* The candidates whose service area is the requested city, in pool order.
available_contractors(candidates, req) ==
    SelectSeq(candidates,
              LAMBDA c : Lower(c.service_area) = Lower(req.city))

\* One base_scores entry: the candidate's attributes and its rounded score.
BaseScoreEntry(contractor, req) ==
    [id |-> contractor.id, name |-> contractor.name,
     base_score |-> RoundBase(calculate_base_score(contractor, req)),
     vertical |-> contractor.vertical,
     years_in_business |-> contractor.years_in_business,
     rating |-> contractor.rating,
     review_count |-> contractor.review_count,
     service_area |-> contractor.service_area,
     pricing_band |-> contractor.pricing_band,
     speed_weeks |-> contractor.speed_weeks,
     licenses |-> contractor.licenses,
     flags |-> contractor.flags]

\* The sort key (base_score, rating, review_count), compared as tuples.
KeyLess(a, b) ==
    \/ a.base_score < b.base_score
    \/ /\ a.base_score = b.base_score
       /\ \/ a.rating < b.rating
          \/ /\ a.rating = b.rating
             /\ a.review_count < b.review_count

\* Mutation: x goes in front of the entries of equal key (an unstable sort).
RECURSIVE InsertDescUnstable(_, _)
InsertDescUnstable(s, x) ==
    IF s = <<>> THEN <<x>>
    ELSE IF ~KeyLess(x, Head(s)) THEN <<x>> \o s
    ELSE <<Head(s)>> \o InsertDescUnstable(Tail(s), x)

\* x put into the descending sequence s behind every entry whose key is not
\* less than its own.
RECURSIVE InsertDesc(_, _)
InsertDesc(s, x) ==
    IF s = <<>> THEN <<x>>
    ELSE IF KeyLess(Head(s), x) THEN <<x>> \o s
    ELSE <<Head(s)>> \o InsertDesc(Tail(s), x)

\* list.sort(key=..., reverse=True): descending and stable.
RECURSIVE SortDesc(_)
SortDesc(s) ==
    IF s = <<>> THEN <<>>
    ELSE InsertDesc(SortDesc(SubSeq(s, 1, Len(s) - 1)), s[Len(s)])

\* s[:n]
Take(s, n) == SubSeq(s, 1, Min(n, Len(s)))

base_scores(candidates, req) ==
    LET avail == available_contractors(candidates, req)
    IN  SortDesc([i \in 1..Len(avail) |-> BaseScoreEntry(avail[i], req)])

TopCandidates(candidates, req) == Take(base_scores(candidates, req), 5)

---------------------------------------------------------------------------
(* Refinement Gate.                                                        *)

\* ScoredContractor(id=..., name=full_contractor["name"], ..., score=...,
\* reasoning=...): every attribute but the id is read from the shortlist.
ScoredContractor(id, full_contractor, score, reasoning) ==
    [id |-> id, name |-> full_contractor.name,
     vertical |-> full_contractor.vertical,
     years_in_business |-> full_contractor.years_in_business,
     rating |-> full_contractor.rating,
     review_count |-> full_contractor.review_count,
     service_area |-> full_contractor.service_area,
     pricing_band |-> full_contractor.pricing_band,
     speed_weeks |-> full_contractor.speed_weeks,
     licenses |-> full_contractor.licenses,
     flags |-> full_contractor.flags,
     score |-> score, reasoning |-> reasoning]

\* The {id: entry} lookups built from the shortlist: a later entry of the
\* same id replaces an earlier one.
InLookup(top, id) == \E i \in 1..Len(top) : top[i].id = id

\* Mutation: the shortlist is read by position, not by identifier.
LookupFirst(top, id) == top[1]

Lookup(top, id) ==
    top[CHOOSE i \in 1..Len(top) :
            /\ top[i].id = id
            /\ \A j \in 1..Len(top) : top[j].id = id => j <= i]

\* float(contractor_data.get("score", 0)) in hundredths; a score that is
\* text raises ValueError.
ScoreRaises(entry) == entry.score.kind = "text"

suggested_score(entry) ==
    IF entry.score.kind = "absent" THEN 0 ELSE entry.score.val

\* Mutation: the suggested score is passed through.
final_score_unclamped(suggested, base_score) == suggested

\* max(min_allowed, min(suggested_score, max_allowed)), in hundredths, for a
\* base score in tenths.
final_score(suggested, base_score) ==
    LET min_allowed == base_score * 10 - 500
        max_allowed == base_score * 10 + 500
    IN  Max(min_allowed, Min(suggested, max_allowed))

\* The loop over the returned entries: acc is top_contractors so far.  The
\* result is [raised, list]; raised when float() raises on an entry.
RECURSIVE RefineLoop(_, _, _)
RefineLoop(top, entries, acc) ==
    IF entries = <<>> THEN [raised |-> FALSE, list |-> acc]
    ELSE LET contractor_data == Head(entries)
             contractor_id   == contractor_data.id
         IN  IF ScoreRaises(contractor_data)
             THEN [raised |-> TRUE, list |-> <<>>]
             ELSE IF ~InLookup(top, contractor_id)
             THEN RefineLoop(top, Tail(entries), acc)
             ELSE LET full_contractor == Lookup(top, contractor_id)
                      fs == final_score(suggested_score(contractor_data),
                                        full_contractor.base_score)
                  IN  RefineLoop(top, Tail(entries),
                        Append(acc, ScoredContractor(contractor_id,
                                        full_contractor, Round1(fs),
                                        contractor_data.reasoning)))

FallbackReasoning == "Base score (GPT adjustment failed)"

\* Mutation: the fallback returns the whole shortlist.
fallback_all(top) ==
    [i \in 1..Len(top) |->
        ScoredContractor(top[i].id, top[i], top[i].base_score,
                         FallbackReasoning)]

\* The JSONDecodeError branch: the first three shortlist entries as they are.
fallback_contractors(top) ==
    [i \in 1..Len(Take(top, 3)) |->
        ScoredContractor(top[i].id, top[i], top[i].base_score,
                         FallbackReasoning)]

ErrorResponse == [status |-> 500, path |-> "error", top_contractors |-> <<>>]

\* Mutation: the refined list is returned whole.
ReturnAll(top_contractors) == top_contractors

\* top_contractors[:3] of the refined return.
ReturnTop3(top_contractors) == Take(top_contractors, 3)

\* Everything after the refiner's text has arrived: a JSONDecodeError takes
\* the fallback branch, any other exception (.get on what is no object, a
\* loop over what is no list, float() of text) reaches the outer handler.
HandleResponse(top, r) ==
    IF r.kind = "invalid_json"
    THEN [status |-> 200, path |-> "fallback",
          top_contractors |-> fallback_contractors(top)]
    ELSE IF r.kind \in {"non_object", "object_non_list"}
    THEN ErrorResponse
    ELSE LET out == RefineLoop(top, r.entries, <<>>)
         IN  IF out.raised THEN ErrorResponse
             ELSE [status |-> 200, path |-> "refined",
                   top_contractors |-> ReturnTop3(out.list)]

---------------------------------------------------------------------------
(* Inputs.                                                                 *)

\* The weights of the worked example, in tenths, and a request without any.
ExampleWeights ==
    { <<"experience", 2>>, <<"reviews", 2>>, <<"rating", 3>>,
      <<"price", 1>>, <<"speed", 2>> }

NoWeights == {}

\* Weights that care about price (>= 0.2) and nothing else.
PriceWeights == { <<"price", 5>> }

Req(city, project_type, weights) ==
    [city |-> city, project_type |-> project_type, notes |-> "",
     weights |-> weights]

\* The worked example, the same without weights, another project type and
\* a city no candidate serves.
Requests ==
    { Req("Salt Lake City", "roofing", ExampleWeights),
      Req("Salt Lake City", "roofing", NoWeights),
      Req("SALT LAKE CITY", "Siding", ExampleWeights),
      Req("Provo", "roofing", ExampleWeights) }

\* A returned score: a number (hundredths of a point), no "score" key, or
\* text that is no number.
Num(v) == [kind |-> "number", val |-> v]

AbsentScore == [kind |-> "absent", val |-> 0]

TextScore == [kind |-> "text", val |-> 0]

\* Entries the refiner may return: ids of the dataset with scores above,
\* inside and below their windows, an id of no candidate, an entry with no
\* id (get("id", "") gives ""), one with no score and one whose score is
\* text.  The "name" is what the refiner echoes back.
Entry(id, score) ==
    [id |-> id, score |-> score, name |-> "Echoed Name",
     reasoning |-> "adjusted"]

Entries ==
    { Entry("c1", Num(10600)),
      Entry("c5", Num(6825)),  Entry("c5", Num(0 - 700)),
      Entry("c9", Num(6825)),  Entry("", Num(6825)),
      Entry("c4", AbsentScore), Entry("c3", TextScore) }

SeqsUpTo(S, n) == UNION { [1..k -> S] : k \in 0..n }

\* What the refiner's output text parses to.
Responses ==
    { [kind |-> "invalid_json", entries |-> <<>>],
      [kind |-> "non_object", entries |-> <<>>],
      [kind |-> "object_non_list", entries |-> <<>>] }
    \cup
    [kind : {"object"}, entries : SeqsUpTo(Entries, MaxEntries)]

NoRequest == [city |-> "", project_type |-> "", notes |-> "", weights |-> {}]

NoGptResponse == [kind |-> "none", entries |-> <<>>]

NoResponse == [status |-> 0, path |-> "none", top_contractors |-> <<>>]

---------------------------------------------------------------------------
(* The request handler.                                                    *)

Init ==
    /\ pool = CONTRACTORS
    /\ pc = "idle"
    /\ request = NoRequest
    /\ top_candidates = <<>>
    /\ gpt_response = NoGptResponse
    /\ response = NoResponse

\* Steps 1 and 2: rank the candidates and build the prompt; the handler is
\* then at the call of the refiner.
RankCandidates(req) ==
    /\ pc = "idle"
    /\ request' = req
    /\ top_candidates' = TopCandidates(pool, req)
    /\ pc' = "calling"
    /\ UNCHANGED <<pool, gpt_response, response>>

\* Step 3 raises (no connection, an API error, a timeout): the outer
\* "except Exception" turns it into HTTP 500.
RefinerRaises ==
    /\ pc = "calling"
    /\ response' = ErrorResponse
    /\ pc' = "done"
    /\ UNCHANGED <<pool, request, top_candidates, gpt_response>>

\* Step 3 returns text; step 4 parses it and builds the response.
RefinerReturns(r) ==
    /\ pc = "calling"
    /\ gpt_response' = r
    /\ response' = HandleResponse(top_candidates, r)
    /\ pc' = "done"
    /\ UNCHANGED <<pool, request, top_candidates>>

Next ==
    \/ \E req \in Requests : RankCandidates(req)
    \/ RefinerRaises
    \/ \E r \in Responses : RefinerReturns(r)

Spec == Init /\ [][Next]_vars

---------------------------------------------------------------------------
(* The ranking on arbitrary pools.                                         *)

\* Candidate profiles: dataset entries, one with fewer reviews and one in
\* another city.
Profiles ==
    { CONTRACTORS[4],
      [CONTRACTORS[4] EXCEPT !.review_count = 59],
      CONTRACTORS[1],
      [CONTRACTORS[4] EXCEPT !.service_area = "Provo"] }

PoolIds == <<"c1", "c2", "c3", "c4", "c5", "c6", "c7", "c8">>

\* Pools of up to MaxPool candidates, identifiers unique by position.
Pools ==
    { [i \in 1..Len(ps) |-> [ps[i] EXCEPT !.id = PoolIds[i]]] :
        ps \in SeqsUpTo(Profiles, MaxPool) }

RankRequests ==
    [city : {"SALT LAKE CITY"}, project_type : {"roofing", "Siding"},
     notes : {""}, weights : {ExampleWeights, NoWeights, PriceWeights}]

InitRank ==
    /\ pool \in Pools
    /\ pc = "idle"
    /\ request = NoRequest
    /\ top_candidates = <<>>
    /\ gpt_response = NoGptResponse
    /\ response = NoResponse

NextRank == \E req \in RankRequests : RankCandidates(req)

SpecRank == InitRank /\ [][NextRank]_vars

---------------------------------------------------------------------------
(* What the claims speak of.                                               *)

Range(s) == { s[i] : i \in 1..Len(s) }

Out == response.top_contractors

ShortlistIds == { t.id : t \in Range(top_candidates) }

\* The shortlist's entry for an identifier.
Stored(id) == CHOOSE t \in Range(top_candidates) : t.id = id

\* The refiner's entries whose identifier is in the shortlist, in its order.
Kept == SelectSeq(gpt_response.entries, LAMBDA e : e.id \in ShortlistIds)

Refined == pc = "done" /\ response.path = "refined"

FellBack == pc = "done" /\ response.path = "fallback"

\* The refiner call itself failed: the handler is done and no text arrived.
RefinerFailed == pc = "done" /\ gpt_response.kind = "none"

\* max(B-5, min(S, B+5)) in hundredths, B in tenths.
Clamp(S, B) == Max(B * 10 - 500, Min(S, B * 10 + 500))

\* The score an entry suggests (0 when it has none), in hundredths.
Suggested(e) == IF e.score.kind = "number" THEN e.score.val ELSE 0

Abs(x) == IF x >= 0 THEN x ELSE 0 - x

SameAttributes(r, t) ==
    /\ r.name = t.name
    /\ r.vertical = t.vertical
    /\ r.years_in_business = t.years_in_business
    /\ r.rating = t.rating
    /\ r.review_count = t.review_count
    /\ r.service_area = t.service_area
    /\ r.pricing_band = t.pricing_band
    /\ r.speed_weeks = t.speed_weeks
    /\ r.licenses = t.licenses
    /\ r.flags = t.flags

\* out is the first min(3, size) shortlist entries, scores and attributes
\* untouched, with the fixed rationale.
IsFallbackOf(out, top) ==
    /\ Len(out) = Min(3, Len(top))
    /\ \A i \in 1..Len(out) :
          /\ out[i].id = top[i].id
          /\ SameAttributes(out[i], top[i])
          /\ out[i].score = top[i].base_score
          /\ out[i].reasoning = "Base score (GPT adjustment failed)"

\* The refiner's text is not the structured data asked for.
Malformed(r) ==
    \/ r.kind \in {"invalid_json", "non_object", "object_non_list"}
    \/ \E e \in Range(r.entries) : e.id = "" \/ e.score.kind # "number"

---------------------------------------------------------------------------
(* Claims.                                                                 *)

\* C1: when the call to the refiner fails, the request still succeeds
\* through the fallback path: the top min(3, shortlist size) entries with
\* their base scores and the fixed rationale, never a failure.
C1_RefinerFailureFallsBack ==
    RefinerFailed =>
        /\ response.status = 200
        /\ IsFallbackOf(Out, top_candidates)

\* C2: a refiner response that is not well-formed structured data takes the
\* fallback path and yields a valid response, never a hard failure.
C2_MalformedFallsBack ==
    (pc = "done" /\ Malformed(gpt_response)) =>
        /\ response.status = 200
        /\ response.path = "fallback"
        /\ IsFallbackOf(Out, top_candidates)

\* C3 (as stated): the score emitted for a returned entry of the shortlist
\* equals max(B-5, min(S, B+5)) exactly.
C3_ClampExact ==
    Refined =>
        \A i \in 1..Len(Out) :
            /\ i <= Len(Kept)
            /\ Out[i].id = Kept[i].id
            /\ Out[i].score * 10
                 = Clamp(Suggested(Kept[i]), Stored(Out[i].id).base_score)

\* C3 (amended): the score emitted is max(B-5, min(S, B+5)) rounded to one
\* decimal place, B being the shortlist's stored base score: it is within
\* 0.05 of the clamp, equal to it when the clamp has one decimal, and within
\* 5 of B.
C3_ClampRounded ==
    Refined =>
        \A i \in 1..Len(Out) :
            /\ i <= Len(Kept)
            /\ Out[i].id = Kept[i].id
            /\ LET B == Stored(Out[i].id).base_score
                   v == Clamp(Suggested(Kept[i]), B)
                   e == Out[i].score
               IN  /\ Abs(e * 10 - v) <= 5
                   /\ (v % 10 = 0 => e * 10 = v)
                   /\ B - 50 <= e /\ e <= B + 50

\* A refined response with one score cut down to B+5 and one suggestion
\* inside its window that has a second decimal.
C3_Witness ==
    /\ Refined
    /\ \E i \in 1..Len(Out) :
          /\ Suggested(Kept[i]) > Stored(Out[i].id).base_score * 10 + 500
          /\ Out[i].score = Stored(Out[i].id).base_score + 50
    /\ \E i \in 1..Len(Out) :
          /\ Suggested(Kept[i]) % 10 # 0
          /\ Clamp(Suggested(Kept[i]), Stored(Out[i].id).base_score)
               = Suggested(Kept[i])

\* C4: every final record, refined or fallback, carries a score in 0..100.
C4_ScoreInRange ==
    pc = "done" =>
        \A r \in Range(Out) : 0 <= r.score /\ r.score <= 1000

\* C5: every final record is a shortlist candidate, found by identifier,
\* with the shortlist's stored attributes whatever the refiner echoed; an
\* identifier outside the (at most 5) shortlist never appears.
C5_OutputFromShortlist ==
    pc = "done" =>
        /\ Len(top_candidates) <= 5
        /\ \A r \in Range(Out) :
              /\ r.id \in ShortlistIds
              /\ SameAttributes(r, Stored(r.id))
        /\ Refined =>
              \A i \in 1..Len(Out) : i <= Len(Kept) /\ Out[i].id = Kept[i].id

\* The refiner returned an unknown identifier and a known one that is not
\* the head of the shortlist, echoing a name that is not the stored one.
C5_Witness ==
    /\ Refined
    /\ \E e \in Range(gpt_response.entries) : e.id \notin ShortlistIds
    /\ Len(Out) >= 1
    /\ Out[1].id # top_candidates[1].id
    /\ Kept[1].name # Out[1].name

\* C6: the refined output is the first three (or fewer) of the refiner's
\* entries found in the shortlist, in the refiner's order, not re-sorted.
C6_FirstThreeInRefinerOrder ==
    Refined =>
        /\ Len(Out) = Min(3, Len(Kept))
        /\ \A i \in 1..Len(Out) :
              /\ Out[i].id = Kept[i].id
              /\ Out[i].reasoning = Kept[i].reasoning
              /\ Abs(Out[i].score * 10
                     - Clamp(Suggested(Kept[i]), Stored(Kept[i].id).base_score))
                   <= 5

\* Four entries were found, three returned, the first with a lower score
\* than the second.
C6_Witness ==
    /\ Refined
    /\ Len(Kept) = 4
    /\ Len(Out) = 3
    /\ Out[1].score < Out[2].score

\* C7: the fallback path returns exactly min(3, shortlist size) records, the
\* first shortlist entries in order, attributes unchanged, score equal to
\* the base score, with the fixed rationale.
C7_FallbackIsTopThree == FellBack => IsFallbackOf(Out, top_candidates)

\* The fallback taken with a shortlist of five.
C7_Witness == FellBack /\ Len(top_candidates) = 5 /\ Len(Out) = 3

\* C8: when no candidate serves the requested city the shortlist is empty
\* and the request ends with an empty result and no error, whatever the
\* refiner does.
C8_EmptyShortlistNoError ==
    (/\ pc = "done"
     /\ \A c \in Range(pool) : Lower(c.service_area) # Lower(request.city)) =>
        /\ top_candidates = <<>>
        /\ response.status = 200
        /\ Out = <<>>

\* The candidate of the pool with an identifier, and its exact base score
\* for the request at hand.
Candidate(id) == pool[CHOOSE i \in 1..Len(pool) : pool[i].id = id]

ExactBase(id) == calculate_base_score(Candidate(id), request)

\* a > b for base scores held as fractions (denominators 10^5 or 10^6).
Above(a, b) == a.num * (b.den \div 100000) > b.num * (a.den \div 100000)

\* The worked example has been ranked.
ExampleRanked ==
    /\ pc # "idle"
    /\ pool = CONTRACTORS
    /\ request = Req("Salt Lake City", "roofing", ExampleWeights)

Ids(s) == [i \in 1..Len(s) |-> s[i].id]

\* C9 (as stated): in the worked example the base scores of c1, c4 and c5
\* are each strictly above those of c2 and c3, and the first three of the
\* shortlist are c1, c4, c5.
C9_RoofersAboveOthers ==
    ExampleRanked =>
        /\ \A x \in {"c1", "c4", "c5"} : \A y \in {"c2", "c3"} :
              Above(ExactBase(x), ExactBase(y))
        /\ Ids(Take(top_candidates, 3)) = <<"c1", "c4", "c5">>

\* C9 (amended): in the worked example the base scores of c1 and c4 are
\* each strictly above those of c2, c3 and c5, c3 is above c5, c5 is above
\* c2, and the first three of the shortlist are c1, c4, c3.
C9_ExampleOrder ==
    ExampleRanked =>
        /\ \A x \in {"c1", "c4"} : \A y \in {"c2", "c3", "c5"} :
              Above(ExactBase(x), ExactBase(y))
        /\ Above(ExactBase("c3"), ExactBase("c5"))
        /\ Above(ExactBase("c5"), ExactBase("c2"))
        /\ Ids(Take(top_candidates, 3)) = <<"c1", "c4", "c3">>

\* The worked example, ranked, with all five candidates in the shortlist.
C9_Witness == ExampleRanked /\ Len(top_candidates) = 5

\* Indices of the pool's candidates that serve the requested city.
Matching ==
    { i \in 1..Len(pool) : Lower(pool[i].service_area) = Lower(request.city) }

PoolIndex(id) == CHOOSE i \in 1..Len(pool) : pool[i].id = id

\* The sort key of the pool's i-th candidate for the request at hand.
KeyOf(i) ==
    << RoundBase(calculate_base_score(pool[i], request)),
       pool[i].rating, pool[i].review_count >>

\* a < b for keys, the base score first, then the rating, then the reviews.
TupleLess(a, b) ==
    \/ a[1] < b[1]
    \/ a[1] = b[1] /\ a[2] < b[2]
    \/ a[1] = b[1] /\ a[2] = b[2] /\ a[3] < b[3]

\* The pool index of the shortlist's k-th entry.
At(k) == PoolIndex(top_candidates[k].id)

\* C10: the shortlist holds at most 5 records, all serving the city, in
\* descending order of (base score, rating, review count); every matching
\* candidate left out has a key no greater than every one kept; candidates
\* of equal key keep their pool order.
C10_ShortlistRanked ==
    pc = "calling" =>
        /\ Len(top_candidates) <= 5
        /\ Len(top_candidates) = Min(5, Cardinality(Matching))
        /\ \A k \in 1..Len(top_candidates) :
              /\ At(k) \in Matching
              /\ top_candidates[k].base_score = KeyOf(At(k))[1]
              /\ SameAttributes(top_candidates[k], pool[At(k)])
        /\ \A k, l \in 1..Len(top_candidates) :
              k < l =>
                 /\ At(k) # At(l)
                 /\ ~TupleLess(KeyOf(At(k)), KeyOf(At(l)))
                 /\ KeyOf(At(k)) = KeyOf(At(l)) => At(k) < At(l)
        /\ \A i \in Matching :
              (\A k \in 1..Len(top_candidates) : At(k) # i) =>
                 \A k \in 1..Len(top_candidates) :
                    /\ ~TupleLess(KeyOf(At(k)), KeyOf(i))
                    /\ KeyOf(At(k)) = KeyOf(i) => At(k) < i

\* A ranked pool of six matching candidates: two kept ones equal on all
\* three keys, two equal on score and rating only, and one left out whose
\* key equals a kept one's.
C10_Witness ==
    /\ pc = "calling"
    /\ Cardinality(Matching) = 6
    /\ \E k, l \in 1..Len(top_candidates) :
          k < l /\ KeyOf(At(k)) = KeyOf(At(l))
    /\ \E k, l \in 1..Len(top_candidates) :
          /\ KeyOf(At(k))[1] = KeyOf(At(l))[1]
          /\ KeyOf(At(k))[2] = KeyOf(At(l))[2]
          /\ KeyOf(At(k))[3] > KeyOf(At(l))[3]
    /\ \E i \in Matching :
          /\ \A k \in 1..Len(top_candidates) : At(k) # i
          /\ KeyOf(i) = KeyOf(At(5))

===========================================================================
